---- MODULE Spec2Model ----
(***************************************************************************)
(* valtio-persist: the persist() orchestrator of src/src/index.ts, the     *)
(* debounce() helper of src/src/utils.ts, the default merge strategy and   *)
(* the storage-strategy contract the orchestrator drives; and, each under  *)
(* a specification of its own, PersistQueue (SpecQueue), the merge         *)
(* strategies (SpecMerge, SpecEnvelope), the JSON serialization strategy   *)
(* (SpecSer, SpecDeep), stores over MemoryStorageStrategy (SpecMemory) and *)
(* the storage strategies (SpecStorage, SpecAdapter, SpecFile,             *)
(* SpecSingleFile).                                                        *)
(*                                                                         *)
(* One behaviour of Spec follows one storage backend through the life of   *)
(* the stores created on it by persist().  JavaScript is single threaded:  *)
(* an action is one task or microtask of the event loop, run to completion.*)
(***************************************************************************)
EXTENDS Integers, Sequences, FiniteSets, TLC

(***************************************************************************)
(* Bounds of the model.                                                    *)
(***************************************************************************)
DebounceTime == 2    \* the debounceTime option, in clock ticks
MaxInFlight == 2     \* storage.set calls that may be unsettled together
MaxCalls == 3        \* calls application code makes in one behaviour

(***************************************************************************)
(* Data: a state is a plain object with number fields; a record is the     *)
(* text stored by the backend under a key.                                 *)
(***************************************************************************)
Fields == {"a", "b"}
FieldOrder == <<"a", "b">>
Vals == {0, 1}

key == "k"
otherKey == "k2"
StorageKeys == {key, otherKey}

\* storage.get()/syncGet() answer for a missing key (null)
NoRecord == <<>>

\* JSON text is a sequence of tokens: an opening token, then one
\* <<name, number>> token per property
OpenBrace == <<"{", 0>>

\* a text JSON.parse rejects
Corrupt == <<<<"<", 0>>>>

(***************************************************************************)
(* JSONSerializationStrategy on objects of numbers.                        *)
(***************************************************************************)
serialize(state) ==
    LET ks == SelectSeq(FieldOrder, LAMBDA f : f \in DOMAIN state)
    IN  <<OpenBrace>> \o [i \in 1..Len(ks) |-> <<ks[i], state[ks[i]]>>]

\* JSON.parse succeeds
Parses(data) ==
    /\ Len(data) >= 1
    /\ data[1] = OpenBrace
    /\ \A i \in 2..Len(data) : data[i][1] \in Fields

\* defined when Parses(data); a repeated property keeps its last value
deserialize(data) ==
    LET names == {data[i][1] : i \in 2..Len(data)}
        last(f) == CHOOSE i \in 2..Len(data) :
                      /\ data[i][1] = f
                      /\ \A j \in 2..Len(data) : data[j][1] = f => j <= i
    IN  [f \in names |-> data[last(f)][2]]

(***************************************************************************)
(* DefaultMergeStrategy.merge: { ...initialState, ...restoredState }       *)
(***************************************************************************)
\* variant: { ...restoredState, ...initialState }
merge_initialWins(initial, restored) ==
    [f \in DOMAIN initial \cup DOMAIN restored |->
        IF f \in DOMAIN initial THEN initial[f] ELSE restored[f]]

merge(initial, restored) ==
    [f \in DOMAIN initial \cup DOMAIN restored |->
        IF f \in DOMAIN restored THEN restored[f] ELSE initial[f]]

\* updateStore / Object.assign(store, newState): every key of newState is
\* assigned onto the live object, other keys stay
updateStore(live, newState) ==
    [f \in DOMAIN live \cup DOMAIN newState |->
        IF f \in DOMAIN newState THEN newState[f] ELSE live[f]]

(***************************************************************************)
(* The shouldPersist option: the default, "persist when the count is even" *)
(* of the tests and the readme, and two predicates that compare the two    *)
(* snapshots.                                                              *)
(***************************************************************************)
Gates == {"always", "evenA", "changed", "notLower"}

shouldPersist(gate, prevState, nextState) ==
    CASE gate = "always"  -> TRUE
      [] gate = "evenA"   -> "a" \in DOMAIN nextState /\ nextState["a"] % 2 = 0
      [] gate = "changed" -> prevState # nextState
      [] gate = "notLower" -> /\ "a" \in DOMAIN prevState
                              /\ "a" \in DOMAIN nextState
                              /\ nextState["a"] >= prevState["a"]

(***************************************************************************)
(* Options and environment of a behaviour.                                 *)
(*   sync    the storage strategy has syncGet/syncSet (LocalStorage,       *)
(*           SessionStorage, MemoryStorage); otherwise only the promise    *)
(*           returning get/set/remove exist (AsyncStorage, ...)            *)
(*   fault   the storage operation that always fails, if any               *)
(***************************************************************************)
Faults == {"none", "set", "get", "remove"}

\* a failing storage is combined with the default gate only
Options ==
    {opts \in [sync : BOOLEAN, restoreStateOnInit : BOOLEAN,
                gate : Gates, fault : Faults] :
        opts.fault # "none" => opts.gate = "always"}

InitialStates == {[f \in {"a"} |-> 0], [f \in Fields |-> 0]}

PreRecords ==
    {NoRecord, Corrupt, serialize([f \in {"b"} |-> 1]), serialize([f \in Fields |-> 1])}

OtherRecord == serialize([f \in {"a"} |-> 0])

VARIABLES
    o,              \* the resolved options
    alive,          \* persist() returned a store (FALSE: it threw)
    initialState,   \* the object the closure variable initialState refers to
    origInitial,    \* history: the value of initialState when persist() was called
    aliased,        \* storeState is initialState itself (line 87, no synchronous
                    \* restoration): proxy() takes that object as its target, so
                    \* writes to the store reach it (tests/basic.test.ts 775-794
                    \* reads a mutation of the first store back through it)
    store,          \* the live proxy state
    previousState,  \* the closure variable previousState
    notifyPending,  \* valtio has a batched subscription notification queued
    timeoutId,      \* debounce: timeoutId !== null
    timer,          \* ticks until the armed timeout may fire, -1: none armed
    sinceMut,       \* history: ticks since the last change of store, capped
    autoWrites,     \* history: set calls made by timers since the last change
                    \*          of store, -1 before the first change
    backend,        \* the records of the storage backend
    inflight,       \* unsettled storage.set calls of an asynchronous strategy
    bg,             \* the background restoration started by persist()
    rs,             \* the restore() call in progress
    cl,             \* the clear() call in progress
    ev,             \* history: the last operation and what its caller saw
    calls,          \* history: calls made by application code so far
    afterClear      \* history: "restoring" while a restore() is unsettled
                    \*          that was called when the last step was a
                    \*          clear() resolving and no storage.set was
                    \*          unsettled, and no assignment or persist() has
                    \*          come since; "no" otherwise

vars == <<o, alive, initialState, origInitial, aliased, store, previousState,
          notifyPending, timeoutId, timer, sinceMut, autoWrites, backend,
          inflight, bg, rs, cl, ev, calls, afterClear>>

(***************************************************************************)
(* The components checked on their own: each is one object with the fields *)
(* named below.  A behaviour that does not construct the component holds   *)
(* NoInstance in its place and leaves it alone.                            *)
(***************************************************************************)
VARIABLES
    pq,             \* the PersistQueue instance and its environment
    ms,             \* the call of a merge strategy
    ser,            \* a state taken through the serialization strategy
    sto,            \* a storage strategy instance
    prevRecord      \* history: what the storage instance of the store before
                    \* this one held under the key when this one was created

NoInstance == "none"

queue == pq.queue                   \* PersistQueue: the write jobs not started
inProgress == pq.inProgress         \* PersistQueue: the inProgress flag
latestSnapshot == pq.latestSnapshot \* PersistQueue: the latestSnapshot field
debounceTimer == pq.debounceTimer   \* the timeouts of add() that are armed
appState == pq.appState     \* what getSnapshot() returns: the changes so far
executing == pq.executing   \* the data of the persistFunction calls not settled
qev == pq.qev               \* history: the last step of the queue, its outcome
qcalls == pq.qcalls         \* history: add() calls and changes made so far
adds == pq.adds             \* history: add() calls made so far
fired == pq.fired           \* history: timeout callbacks of add() run so far
dropped == pq.dropped       \* history: queued jobs a timeout callback discarded

queueVars == <<pq>>

mInitial == ms.mInitial     \* merge strategies: the initialState argument
mRestored == ms.mRestored   \* merge strategies: the restoredState argument
mStrategy == ms.mStrategy   \* the strategy whose merge was called
mResult == ms.mResult       \* what merge returned

mergeVars == <<ms>>

sState == ser.sState        \* the state of the store that persists
sInitial == ser.sInitial    \* the initialState of the store constructed next
sData == ser.sData          \* the record: what serialize returned
sRestored == ser.sRestored  \* what deserialize returned for the record
sStore == ser.sStore        \* the state of the store constructed next
sPhase == ser.sPhase        \* "state", "persisted", "constructed"

serVars == <<ser>>

stKind == sto.stKind        \* storage strategies: the class of the instance
stRecords == sto.stRecords  \* what it holds: <<>> or <<text>> for each key
stRef == sto.stRef          \* history: the partial map the calls so far describe
stOp == sto.stOp            \* history: the last call and what it resolved to
stCalls == sto.stCalls      \* history: calls made so far

stoVars == <<sto>>

memVars == <<prevRecord>>

auxVars == <<queueVars, mergeVars, serVars, stoVars, memVars>>

QEvent(op, res, log) == [op |-> op, res |-> res, log |-> log]

\* new PersistQueue(), queue.ts lines 6-14
PersistQueueInit ==
    pq = [queue |-> <<>>, inProgress |-> FALSE, latestSnapshot |-> "null",
          debounceTimer |-> 0, appState |-> 0, executing |-> <<>>,
          qev |-> QEvent("new", "done", FALSE), qcalls |-> 0,
          adds |-> 0, fired |-> 0, dropped |-> 0]

QueueUnused == pq = NoInstance

\* a JavaScript value: its kind, its number if it is a number or a time, its
\* text if it is a string or carries a name, and its own properties (the
\* elements of an array under "0", "1", ...)
Value(t, n, s, props) == [t |-> t, n |-> n, s |-> s, o |-> props]

Num(n) == Value("number", n, "", <<>>)
Str(s) == Value("string", 0, s, <<>>)
Null == Value("null", 0, "", <<>>)
Undefined == Value("undefined", 0, "", <<>>)
Obj(props) == Value("object", 0, "", props)
Arr(elements) == Value("array", 0, "", elements)

isObject(v) == v.t = "object"

\* what obj[k] evaluates to
Get(obj, k) == IF k \in DOMAIN obj.o THEN obj.o[k] ELSE Undefined

DateOf(n) == Value("date", n, "", <<>>)
Pair(k, v) == Arr("0" :> k @@ "1" :> v)
MapOf(entries) == Value("map", 0, "", entries)
SetOf(members) == Value("set", 0, "", members)
ErrorOf(message) ==
    Value("error", 0, "", [message |-> Str(message), name |-> Str("Error"),
                           stack |-> Str("Error: at line")])
ClassOf(className, props) == Value("class", 0, className, props)

TYPE_MARKER ==
    [Date |-> "__DATE__", Map |-> "__MAP__", Set |-> "__SET__",
     Symbol |-> "__SYMBOL__", Function |-> "__FUNCTION__",
     Class |-> "__CLASS__", Error |-> "__ERROR__",
     DOMElement |-> "__DOM_ELEMENT__"]

Envelope(marker, value) == Obj("__type" :> Str(marker) @@ "value" :> value)

\* Date.prototype.toISOString and new Date(string)
toISOString(d) == Value("string", d.n, "iso", <<>>)
newDate(str) == IF str.s = "iso" THEN DateOf(str.n) ELSE Value("date", 0, "invalid", <<>>)

\* typeof v === "object" && v !== null, for a parsed value
isObjectLike(v) == v.t \in {"object", "array"}

\* typeof v === "object" && v !== null, for any value
typeofObject(v) ==
    v.t \in {"object", "array", "date", "map", "set", "error", "class"}

\* the names of the elements of an array, in order
Index == <<"0", "1", "2", "3", "4", "5", "6", "7">>

\* the elements of an array as a sequence, and the array of a sequence
toSeq(a) == [i \in 1..Cardinality(DOMAIN a.o) |-> a.o[Index[i]]]
fromSeq(s) ==
    Arr([k \in {Index[i] : i \in 1..Len(s)} |->
            s[CHOOSE i \in 1..Len(s) : Index[i] = k]])

MergeUnused == ms = NoInstance

SerUnused == ser = NoInstance

StorageUnused == sto = NoInstance

NoEarlierStore == prevRecord = NoRecord

AuxInit ==
    QueueUnused /\ MergeUnused /\ SerUnused /\ StorageUnused /\ NoEarlierStore

notQueueVars == <<vars, mergeVars, serVars, stoVars, memVars>>
notMergeVars == <<vars, queueVars, serVars, stoVars, memVars>>
notSerVars == <<vars, queueVars, mergeVars, stoVars, memVars>>
notStoVars == <<vars, queueVars, mergeVars, serVars, memVars>>

snapshot(proxyState) == proxyState

Idle == [pc |-> "idle", data |-> NoRecord]

Event(op, res, log) == [op |-> op, res |-> res, log |-> log]

(***************************************************************************)
(* persist(initialState, key, options): lines 57-119 and 141-171.          *)
(* Yields the values of the variables when the call returns or throws.     *)
(***************************************************************************)
\* variant: the restoreStateOnInit option is not consulted
syncRestore_always(opts) == opts.sync

\* line 90: the synchronous restoration is entered
syncRestore(opts) == opts.restoreStateOnInit /\ opts.sync

\* line 102: the asynchronous restoration is started
asyncRestore(opts) == opts.restoreStateOnInit /\ ~opts.sync

\* variant: the stored record is read but the store keeps initialState
storeState_initialOnly(init, storedData) == init

\* variant: the store is built from the record alone
storeState_recordOnly(init, storedData) == deserialize(storedData)

\* lines 87-96: the object handed to proxy()
storeState(init, storedData) ==
    IF storedData # NoRecord
    THEN merge(init, deserialize(storedData))
    ELSE init

persist(init, opts, be) ==
    LET threw == syncRestore(opts) /\ (opts.fault = "get" \/
                                       (be[key] # NoRecord /\ ~Parses(be[key])))
        storedData == IF syncRestore(opts) THEN be[key] ELSE NoRecord
    IN  [alive |-> ~threw,
         initialState |-> init,
         aliased |-> storedData = NoRecord,
         store |-> IF threw THEN init ELSE storeState(init, storedData),
         bg |-> IF asyncRestore(opts)
                THEN [pc |-> "reading", data |-> NoRecord]
                ELSE Idle]

Start(init, opts, be) ==
    LET r == persist(init, opts, be)
    IN  /\ o' = opts
        /\ alive' = r.alive
        /\ initialState' = r.initialState
        /\ origInitial' = init
        /\ aliased' = r.aliased
        /\ store' = r.store
        /\ previousState' = snapshot(r.store)
        /\ notifyPending' = FALSE
        /\ timeoutId' = FALSE
        /\ timer' = -1
        /\ sinceMut' = DebounceTime
        /\ autoWrites' = -1
        /\ backend' = be
        /\ inflight' = <<>>
        /\ bg' = IF r.alive THEN r.bg ELSE Idle
        /\ rs' = Idle
        /\ cl' = Idle
        /\ ev' = Event("persist()", IF r.alive THEN "returned" ELSE "threw", FALSE)
        /\ afterClear' = "no"

InitWith(init, opts, be) ==
    LET r == persist(init, opts, be)
    IN  /\ o = opts
        /\ alive = r.alive
        /\ initialState = r.initialState
        /\ origInitial = init
        /\ aliased = r.aliased
        /\ store = r.store
        /\ previousState = snapshot(r.store)
        /\ notifyPending = FALSE
        /\ timeoutId = FALSE
        /\ timer = -1
        /\ sinceMut = DebounceTime
        /\ autoWrites = -1
        /\ backend = be
        /\ inflight = <<>>
        /\ bg = (IF r.alive THEN r.bg ELSE Idle)
        /\ rs = Idle
        /\ cl = Idle
        /\ ev = Event("persist()", IF r.alive THEN "returned" ELSE "threw", FALSE)
        /\ calls = 0
        /\ afterClear = "no"

Init ==
    \E init \in InitialStates, opts \in Options, rec \in PreRecords :
        /\ InitWith(init, opts,
                    [k \in StorageKeys |-> IF k = key THEN rec ELSE OtherRecord])
        /\ AuxInit

(***************************************************************************)
(* Helpers shared by the actions.                                          *)
(***************************************************************************)

\* a promise continuation or a batched valtio notification is queued: it
\* runs before the event loop takes the next timer or I/O completion
MicrotaskPending == notifyPending \/ (o.sync /\ rs.pc = "apply")

\* a write to the proxy: valtio writes through to the proxy target and
\* queues one notification for the subscribers when a value changed
SetStore(newState) ==
    /\ store' = newState
    /\ initialState' = IF aliased THEN newState ELSE initialState
    /\ notifyPending' = (notifyPending \/ newState # store)
    /\ sinceMut' = IF newState # store THEN 0 ELSE sinceMut
    /\ autoWrites' = IF newState # store THEN 0 ELSE autoWrites

KeepStore == UNCHANGED <<store, initialState, notifyPending, sinceMut, autoWrites>>

Put(be, k, text) == [be EXCEPT ![k] = text]

Min(x, y) == IF x <= y THEN x ELSE y

(***************************************************************************)
(* persistData, index.ts lines 122-139: the effect of one call on the      *)
(* backend and the unsettled set calls, and what the call hands back.      *)
(***************************************************************************)
\* variant: the snapshot kept for the gate is written instead of a fresh one
serialized_stale == serialize(previousState)

\* line 123 and 130: the text a call writes
serialized == serialize(snapshot(store))

\* variant: only the debounced calls consult the gate
gateRejects_autoOnly(manual) ==
    ~manual /\ ~shouldPersist(o.gate, previousState, snapshot(store))

\* line 126: the gate turns the call down
gateRejects(manual) == ~shouldPersist(o.gate, previousState, snapshot(store))

persistData(manual) ==
    IF gateRejects(manual)
    THEN [res |-> "resolved", backend |-> backend, inflight |-> inflight,
          setCalled |-> FALSE]
    ELSE IF o.sync
    THEN IF o.fault = "set"
         THEN [res |-> "threw", backend |-> backend, inflight |-> inflight,
               setCalled |-> TRUE]
         ELSE [res |-> "resolved", backend |-> Put(backend, key, serialized),
               inflight |-> inflight, setCalled |-> TRUE]
    ELSE [res |-> "pending", backend |-> backend,
          inflight |-> Append(inflight, [text |-> serialized, manual |-> manual]),
          setCalled |-> TRUE]

CanCallSet == o.sync \/ Len(inflight) < MaxInFlight

(***************************************************************************)
(* Application code assigns a field of the store.                          *)
(***************************************************************************)
Mutate(f, v) ==
    /\ UNCHANGED auxVars
    /\ alive
    /\ calls < MaxCalls
    /\ calls' = calls + 1
    /\ f \in DOMAIN store => store[f] # v
    /\ SetStore([g \in DOMAIN store \cup {f} |-> IF g = f THEN v ELSE store[g]])
    /\ ev' = Event("mutate", "done", FALSE)
    /\ afterClear' = "no"
    /\ UNCHANGED <<o, alive, origInitial, aliased, previousState, timeoutId,
                   timer, backend, inflight, bg, rs, cl>>

(***************************************************************************)
(* The subscribe callback, index.ts lines 145-154, with the call of the    *)
(* debounced function, utils.ts lines 39-57 (arming the timeout).          *)
(***************************************************************************)
\* variant: a pending timeout is kept instead of being restarted
armTimeout_keep(pending) == IF pending >= 0 THEN pending ELSE DebounceTime

\* utils.ts lines 40-44: the pending timeout is cleared and a new one set
armTimeout(pending) == DebounceTime

\* variant: previousState advances only when the change is persisted
advance_whenPersisted(pass, prevState, currentState) ==
    IF pass THEN currentState ELSE prevState

\* index.ts line 153: previousState after the callback
advance(pass, prevState, currentState) == currentState

SubscribeCallback ==
    /\ UNCHANGED auxVars
    /\ alive
    /\ calls' = calls
    /\ notifyPending
    /\ LET currentState == snapshot(store)
           pass == shouldPersist(o.gate, previousState, currentState)
       IN  /\ timeoutId' = (IF pass THEN TRUE ELSE timeoutId)
           /\ timer' = (IF pass THEN armTimeout(timer) ELSE timer)
           /\ previousState' = advance(pass, previousState, currentState)
           /\ ev' = Event("subscribe", IF pass THEN "scheduled" ELSE "skipped", FALSE)
    /\ notifyPending' = FALSE
    /\ UNCHANGED <<afterClear, o, alive, initialState, origInitial, aliased, store, sinceMut,
                   autoWrites, backend, inflight, bg, rs, cl>>

(***************************************************************************)
(* The clock advances by one tick.                                         *)
(***************************************************************************)
Tick ==
    /\ UNCHANGED auxVars
    /\ alive
    /\ calls' = calls
    /\ ~MicrotaskPending
    /\ timer > 0 \/ sinceMut < DebounceTime
    /\ timer' = (IF timer > 0 THEN timer - 1 ELSE timer)
    /\ sinceMut' = Min(sinceMut + 1, DebounceTime)
    /\ ev' = Event("tick", "done", FALSE)
    /\ UNCHANGED <<afterClear, o, alive, initialState, origInitial, aliased, store,
                   previousState, notifyPending, timeoutId, autoWrites, backend,
                   inflight, bg, rs, cl>>

(***************************************************************************)
(* The timeout callback of debounce, utils.ts lines 44-56.                 *)
(***************************************************************************)
TimerFire ==
    /\ UNCHANGED auxVars
    /\ alive
    /\ calls' = calls
    /\ timer = 0
    /\ ~MicrotaskPending
    /\ CanCallSet
    /\ LET r == persistData(FALSE)
       IN  /\ backend' = r.backend
           /\ inflight' = r.inflight
           /\ timeoutId' = (r.res = "threw")
           /\ autoWrites' = (IF r.setCalled THEN Min(autoWrites + 1, 2) ELSE autoWrites)
           /\ ev' = Event("timer", IF r.res = "threw" THEN "uncaught" ELSE r.res, FALSE)
    /\ timer' = -1
    /\ UNCHANGED <<afterClear, o, alive, initialState, origInitial, aliased, store,
                   previousState, notifyPending, sinceMut, bg, rs, cl>>

(***************************************************************************)
(* The persist function of the result, index.ts line 159.                  *)
(***************************************************************************)
Persist ==
    /\ UNCHANGED auxVars
    /\ alive
    /\ calls < MaxCalls
    /\ calls' = calls + 1
    /\ CanCallSet
    /\ LET r == persistData(TRUE)
       IN  /\ backend' = r.backend
           /\ inflight' = r.inflight
           /\ ev' = Event("persist", r.res, FALSE)
    /\ afterClear' = "no"
    /\ UNCHANGED <<o, alive, initialState, origInitial, aliased, store,
                   previousState, notifyPending, timeoutId, timer, sinceMut,
                   autoWrites, bg, rs, cl>>

(***************************************************************************)
(* An unsettled storage.set of an asynchronous strategy settles; calls     *)
(* issued together may complete in any order.                              *)
(***************************************************************************)
SetSettle(i) ==
    /\ UNCHANGED auxVars
    /\ alive
    /\ calls' = calls
    /\ ~MicrotaskPending
    /\ i \in 1..Len(inflight)
    /\ LET w == inflight[i]
           failed == o.fault = "set"
       IN  /\ backend' = (IF failed THEN backend ELSE Put(backend, key, w.text))
           /\ ev' = Event(IF w.manual THEN "persistSettled" ELSE "timerSettled",
                          IF ~failed THEN "resolved"
                          ELSE IF w.manual THEN "rejected" ELSE "unhandled",
                          FALSE)
    /\ inflight' = [j \in 1..(Len(inflight) - 1) |->
                       IF j < i THEN inflight[j] ELSE inflight[j + 1]]
    /\ UNCHANGED <<afterClear, o, alive, initialState, origInitial, aliased, store,
                   previousState, notifyPending, timeoutId, timer, sinceMut,
                   autoWrites, bg, rs, cl>>

(***************************************************************************)
(* clear: () => storage.remove(key), index.ts line 160.  The remove of a   *)
(* strategy over a synchronous store acts during the call; the call of an  *)
(* asynchronous strategy settles later.                                    *)
(***************************************************************************)
\* variant: every record of the backend is removed
remove_allKeys(be, k) == [j \in StorageKeys |-> NoRecord]

\* storage.remove(key) carried out
remove(be, k) == Put(be, k, NoRecord)

Clear ==
    /\ UNCHANGED auxVars
    /\ alive
    /\ calls < MaxCalls
    /\ calls' = calls + 1
    /\ cl.pc = "idle"
    /\ IF o.sync
       THEN /\ backend' = (IF o.fault = "remove" THEN backend
                           ELSE remove(backend, key))
            /\ cl' = cl
            /\ ev' = Event("clear", IF o.fault = "remove" THEN "rejected"
                                    ELSE "resolved", FALSE)
       ELSE /\ backend' = backend
            /\ cl' = [cl EXCEPT !.pc = "removing"]
            /\ ev' = Event("clear", "pending", FALSE)
    /\ UNCHANGED <<afterClear, o, alive, initialState, origInitial, aliased, store,
                   previousState, notifyPending, timeoutId, timer, sinceMut,
                   autoWrites, inflight, bg, rs>>

ClearSettle ==
    /\ UNCHANGED auxVars
    /\ alive
    /\ calls' = calls
    /\ cl.pc = "removing"
    /\ ~MicrotaskPending
    /\ backend' = (IF o.fault = "remove" THEN backend ELSE remove(backend, key))
    /\ cl' = Idle
    /\ ev' = Event("clearSettled", IF o.fault = "remove" THEN "rejected"
                                   ELSE "resolved", FALSE)
    /\ UNCHANGED <<afterClear, o, alive, initialState, origInitial, aliased, store,
                   previousState, notifyPending, timeoutId, timer, sinceMut,
                   autoWrites, inflight, bg, rs>>

(***************************************************************************)
(* restore, index.ts lines 161-170.  Restore is the call up to the await   *)
(* of storage.get, RestoreRead the backend read of an asynchronous         *)
(* strategy, RestoreApply the continuation after the await.                *)
(***************************************************************************)
Restore ==
    /\ UNCHANGED auxVars
    /\ alive
    /\ calls < MaxCalls
    /\ calls' = calls + 1
    /\ rs.pc = "idle"
    /\ IF o.sync
       THEN IF o.fault = "get"
            THEN rs' = rs /\ ev' = Event("restore", "rejected", FALSE)
            ELSE /\ rs' = [pc |-> "apply", data |-> backend[key]]
                 /\ ev' = Event("restore", "pending", FALSE)
       ELSE /\ rs' = [pc |-> "reading", data |-> NoRecord]
            /\ ev' = Event("restore", "pending", FALSE)
    /\ afterClear' = (IF /\ ev.op \in {"clear", "clearSettled"}
                          /\ ev.res = "resolved"
                          /\ inflight = <<>>
                          /\ ev'.res = "pending"
                       THEN "restoring" ELSE "no")
    /\ UNCHANGED <<o, alive, initialState, origInitial, aliased, store,
                   previousState, notifyPending, timeoutId, timer, sinceMut,
                   autoWrites, backend, inflight, bg, cl>>

RestoreRead ==
    /\ UNCHANGED auxVars
    /\ alive
    /\ calls' = calls
    /\ rs.pc = "reading"
    /\ ~MicrotaskPending
    /\ IF o.fault = "get"
       THEN rs' = Idle /\ ev' = Event("restoreSettled", "rejected", FALSE)
       ELSE /\ rs' = [pc |-> "apply", data |-> backend[key]]
            /\ ev' = Event("restoreRead", "pending", FALSE)
    /\ afterClear' = (IF o.fault = "get" THEN "no" ELSE afterClear)
    /\ UNCHANGED <<o, alive, initialState, origInitial, aliased, store,
                   previousState, notifyPending, timeoutId, timer, sinceMut,
                   autoWrites, backend, inflight, bg, cl>>

RestoreApply ==
    /\ UNCHANGED auxVars
    /\ alive
    /\ calls' = calls
    /\ rs.pc = "apply"
    /\ LET storedData == rs.data
       IN  IF storedData = NoRecord
           THEN KeepStore /\ ev' = Event("restoreSettled", "false", FALSE)
           ELSE IF ~Parses(storedData)
           THEN KeepStore /\ ev' = Event("restoreSettled", "rejected", FALSE)
           ELSE LET storedState == deserialize(storedData)
                    mergedState == merge(initialState, storedState)
                IN  /\ SetStore(updateStore(store, mergedState))
                    /\ ev' = Event("restoreSettled", "true", FALSE)
    /\ rs' = Idle
    /\ afterClear' = "no"
    /\ UNCHANGED <<o, alive, origInitial, aliased, previousState, timeoutId,
                   timer, backend, inflight, bg, cl>>

(***************************************************************************)
(* The asynchronous restoration persist() starts, index.ts lines 102-117:  *)
(* BgRead is the backend read, BgApply the then/catch callbacks.           *)
(***************************************************************************)
\* variant: the catch callback drops the error without a log line
restorationCatch_silent == Event("restoration", "failed", FALSE)

\* lines 113-116: the catch callback logs "Failed to restore state:"
restorationCatch == Event("restoration", "failed", TRUE)

BgRead ==
    /\ UNCHANGED auxVars
    /\ alive
    /\ calls' = calls
    /\ bg.pc = "reading"
    /\ ~MicrotaskPending
    /\ IF o.fault = "get"
       THEN bg' = Idle /\ ev' = restorationCatch
       ELSE /\ bg' = [pc |-> "apply", data |-> backend[key]]
            /\ ev' = Event("restorationRead", "pending", FALSE)
    /\ UNCHANGED <<afterClear, o, alive, initialState, origInitial, aliased, store,
                   previousState, notifyPending, timeoutId, timer, sinceMut,
                   autoWrites, backend, inflight, rs, cl>>

BgApply ==
    /\ UNCHANGED auxVars
    /\ alive
    /\ calls' = calls
    /\ bg.pc = "apply"
    /\ LET storedData == bg.data
       IN  IF storedData = NoRecord
           THEN KeepStore /\ ev' = Event("restoration", "none", FALSE)
           ELSE IF ~Parses(storedData)
           THEN KeepStore /\ ev' = restorationCatch
           ELSE LET storedState == deserialize(storedData)
                    mergedState == merge(initialState, storedState)
                IN  /\ SetStore(updateStore(store, mergedState))
                    /\ ev' = Event("restoration", "restored", FALSE)
    /\ bg' = Idle
    /\ UNCHANGED <<afterClear, o, alive, origInitial, aliased, previousState, timeoutId,
                   timer, backend, inflight, rs, cl>>

(***************************************************************************)
(* A later persist() call on the same backend, with the same options and   *)
(* a new initialState object, made when the earlier store has no work      *)
(* left: the earlier store is not used again.                              *)
(***************************************************************************)
Quiescent ==
    /\ ~notifyPending
    /\ timer = -1
    /\ inflight = <<>>
    /\ bg.pc = "idle" /\ rs.pc = "idle" /\ cl.pc = "idle"

Construct(init) ==
    /\ UNCHANGED auxVars
    /\ Quiescent
    /\ calls < MaxCalls
    /\ calls' = calls + 1
    /\ Start(init, o, backend)

Next ==
    \/ \E f \in Fields, v \in Vals : Mutate(f, v)
    \/ SubscribeCallback
    \/ Tick
    \/ TimerFire
    \/ Persist
    \/ \E i \in 1..MaxInFlight : SetSettle(i)
    \/ Clear
    \/ ClearSettle
    \/ Restore
    \/ RestoreRead
    \/ RestoreApply
    \/ BgRead
    \/ BgApply
    \/ \E init \in InitialStates : Construct(init)

Spec == Init /\ [][Next]_vars

(***************************************************************************)
(* PersistQueue, src/src/queue.ts.  getSnapshot() returns appState; the     *)
(* job add() queues is the closure () => persistFunction(latestSnapshot),  *)
(* which reads the field when it is run.  persistFunction may throw in the *)
(* call, or hand back a promise that resolves or rejects later.            *)
(***************************************************************************)
MaxQueueCalls == 4   \* add() calls and changes of appState in one behaviour

StoreUnused ==
    /\ o = [sync |-> TRUE, restoreStateOnInit |-> FALSE, gate |-> "always",
            fault |-> "none"]
    /\ alive = FALSE
    /\ initialState = <<>> /\ origInitial = <<>> /\ aliased = FALSE
    /\ store = <<>> /\ previousState = <<>>
    /\ notifyPending = FALSE /\ timeoutId = FALSE /\ timer = -1
    /\ sinceMut = 0 /\ autoWrites = -1
    /\ backend = [k \in StorageKeys |-> NoRecord]
    /\ inflight = <<>>
    /\ bg = Idle /\ rs = Idle /\ cl = Idle
    /\ ev = Event("none", "none", FALSE)
    /\ calls = 0
    /\ afterClear = "no"

\* variant: processQueue starts a job whatever the inProgress flag says
busy_never(inProg) == FALSE

\* queue.ts line 37: a write is executing
busy(inProg) == inProg

\* processQueue up to its await, queue.ts lines 36-42: the fields after it
\* and what became of the job it took
processQueue(q, inProg, exec, snap, persistThrows) ==
    IF busy(inProg) \/ q = <<>>
    THEN [queue |-> q, inProgress |-> inProg, executing |-> exec,
          res |-> IF q = <<>> THEN "idle" ELSE "deferred"]
    ELSE [queue |-> Tail(q), inProgress |-> TRUE,
          executing |-> IF persistThrows THEN exec ELSE Append(exec, snap),
          res |-> IF persistThrows THEN "threw" ELSE "started"]

\* variant: add() arms a timeout and leaves the earlier one armed
armed_noCancel(timers) == timers + 1

\* queue.ts lines 20-26: clearTimeout of the timeout of the call before, then
\* setTimeout; the timeouts armed afterwards
armed(timers) == 1

\* variant: the timeout callback appends its job to the queue
enqueue_append(q) == Append(q, "job")

\* queue.ts line 31: this.queue = [() => persistFunction(this.latestSnapshot)]
enqueue(q) == <<"job">>

\* variant: processQueue ends without calling itself again
afterWrite_noDrain(q, rest, snap, persistThrows) ==
    [queue |-> q, inProgress |-> FALSE, executing |-> rest, res |-> "idle"]

\* processQueue after its await, queue.ts lines 47-48
afterWrite(q, rest, snap, persistThrows) ==
    processQueue(q, FALSE, rest, snap, persistThrows)

\* the application state changes
QueueMutate ==
    /\ qcalls < MaxQueueCalls
    /\ pq' = [pq EXCEPT !.qcalls = qcalls + 1,
                        !.appState = appState + 1,
                        !.qev = QEvent("mutate", "done", FALSE)]
    /\ UNCHANGED notQueueVars

\* add(getSnapshot, persistFunction), queue.ts lines 16-34
add ==
    /\ qcalls < MaxQueueCalls
    /\ pq' = [pq EXCEPT !.qcalls = qcalls + 1,
                        !.adds = adds + 1,
                        !.debounceTimer = armed(debounceTimer),
                        !.qev = QEvent("add", "returned", FALSE)]
    /\ UNCHANGED notQueueVars

\* the timeout callback of add(), queue.ts lines 26-33
QueueTimer(getSnapshotThrows, persistThrows) ==
    /\ debounceTimer > 0
    /\ IF getSnapshotThrows
       THEN pq' = [pq EXCEPT !.debounceTimer = debounceTimer - 1,
                             !.fired = fired + 1,
                             !.qev = QEvent("timer", "uncaught", FALSE)]
       ELSE LET r == processQueue(enqueue(queue), inProgress, executing,
                                  appState, persistThrows)
            IN  pq' = [pq EXCEPT !.debounceTimer = debounceTimer - 1,
                                 !.fired = fired + 1,
                                 !.dropped = dropped + Len(queue) + 1
                                               - Len(enqueue(queue)),
                                 !.latestSnapshot = appState,
                                 !.queue = r.queue,
                                 !.inProgress = r.inProgress,
                                 !.executing = r.executing,
                                 !.qev = QEvent("timer", r.res, FALSE)]
    /\ UNCHANGED notQueueVars

\* the promise of an executing persistFunction call settles: processQueue
\* after its await, queue.ts lines 42-48, with the processQueue it calls
QueueSettle(i, rejected, persistThrows) ==
    /\ i \in 1..Len(executing)
    /\ LET rest == [j \in 1..(Len(executing) - 1) |->
                       IF j < i THEN executing[j] ELSE executing[j + 1]]
           r == afterWrite(queue, rest, latestSnapshot, persistThrows)
       IN  pq' = [pq EXCEPT !.queue = r.queue,
                            !.inProgress = r.inProgress,
                            !.executing = r.executing,
                            !.qev = QEvent("settled", r.res, rejected)]
    /\ UNCHANGED notQueueVars

QueueInit ==
    /\ StoreUnused /\ PersistQueueInit
    /\ MergeUnused /\ SerUnused /\ StorageUnused /\ NoEarlierStore

QueueNext ==
    \/ QueueMutate
    \/ add
    \/ \E g \in BOOLEAN, p \in BOOLEAN : QueueTimer(g, p)
    \/ \E i \in 1..MaxQueueCalls, rejected \in BOOLEAN, p \in BOOLEAN : QueueSettle(i, rejected, p)

SpecQueue == QueueInit /\ [][QueueNext]_<<vars, auxVars>>

\* the event loop runs the callback of every armed timeout, and every
\* promise persistFunction handed back settles
SpecQueueFair ==
    /\ SpecQueue
    /\ WF_<<vars, auxVars>>(\E g \in BOOLEAN, p \in BOOLEAN : QueueTimer(g, p))
    /\ WF_<<vars, auxVars>>(\E i \in 1..MaxQueueCalls, rejected \in BOOLEAN,
                               p \in BOOLEAN : QueueSettle(i, rejected, p))

(***************************************************************************)
(* The merge strategies: DefaultMergeStrategy (src/unnamed/part_006) and   *)
(* DeepMergeStrategy (src/src/merge/deepMerge.ts) on states built of plain *)
(* objects, numbers and null.                                              *)
(***************************************************************************)
MergeKeys == {"a", "b"}
MergeLeaves == {Num(1), Num(2), Null}

\* the plain objects with keys of MergeKeys and values of vals
Objects(vals) ==
    UNION {{Obj(f) : f \in [ks -> vals]} : ks \in SUBSET MergeKeys}

MergeValues == MergeLeaves \cup Objects(MergeLeaves)

\* the states of README and tests, cut to their shape
MergeExamples ==
    {Obj("a" :> Num(1) @@ "b" :> Num(2)),
     Obj("b" :> Num(3) @@ "c" :> Num(4)),
     Obj("x" :> Obj("a" :> Num(1) @@ "b" :> Num(2))),
     Obj("x" :> Obj("b" :> Num(3)))}

MergeStates == Objects(MergeValues) \cup MergeExamples

\* deepClone of valtio/utils: a new array for an array, an object of the same
\* prototype with the own properties cloned for any other object (a Date so
\* made has no time value), a proxyMap or proxySet of the same entries
RECURSIVE deepClone(_)
deepClone(v) ==
    CASE v.t \in {"object", "array", "class", "error"} ->
            Value(v.t, v.n, v.s, [k \in DOMAIN v.o |-> deepClone(v.o[k])])
      [] v.t = "date" -> Value("date", 0, "no time value", <<>>)
      [] OTHER -> v

\* the keys of Map and the members of Set are compared by SameValueZero: a
\* primitive by its value, an object by its identity, and the objects held
\* by two arrays are different objects
sameValueZero(a, b) == ~typeofObject(a) /\ a = b

\* variant: an entry whose key the map already holds is left as it is
mapSet_keep(entries, k, v) ==
    IF \E i \in 1..Len(entries) : sameValueZero(Get(entries[i], "0"), k)
    THEN entries
    ELSE Append(entries, Pair(k, v))

\* Map.prototype.set on the entries in insertion order
mapSet(entries, k, v) ==
    IF \E i \in 1..Len(entries) : sameValueZero(Get(entries[i], "0"), k)
    THEN [i \in 1..Len(entries) |->
            IF sameValueZero(Get(entries[i], "0"), k)
            THEN Pair(Get(entries[i], "0"), v) ELSE entries[i]]
    ELSE Append(entries, Pair(k, v))

\* Set.prototype.add on the members in insertion order
setAdd(members, v) ==
    IF \E i \in 1..Len(members) : sameValueZero(members[i], v)
    THEN members
    ELSE Append(members, v)

\* Array.from(proxyMap(entries).entries()), the entries set one by one
RECURSIVE proxyMap(_, _)
proxyMap(acc, entries) ==
    IF entries = <<>> THEN acc
    ELSE proxyMap(mapSet(acc, Get(Head(entries), "0"), Get(Head(entries), "1")),
                  Tail(entries))

\* Array.from(proxySet(members)), the members added one by one
RECURSIVE proxySet(_, _)
proxySet(acc, members) ==
    IF members = <<>> THEN acc
    ELSE proxySet(setAdd(acc, Head(members)), Tail(members))

\* the own enumerable properties of an object, which a spread and a for-in
\* guarded by hasOwnProperty see: none for a Date, the name assigned to an
\* Error, the methods of a proxyMap or proxySet (stood for by forEach)
ownProperties(v) ==
    CASE v.t \in {"object", "array", "class"} -> v.o
      [] v.t = "error" -> [k \in {"name"} \cap DOMAIN v.o |-> v.o[k]]
      [] v.t \in {"map", "set"} -> "forEach" :> Value("function", 0, "forEach", <<>>)
      [] OTHER -> <<>>

\* DeepMergeStrategy.isSpecialType, lines 21-31
isSpecialType(obj) ==
    /\ obj.t \in {"object", "class"}
    /\ "__type" \in DOMAIN obj.o
    /\ obj.o["__type"].t = "string"
    /\ obj.o["__type"].s \in {TYPE_MARKER[m] : m \in DOMAIN TYPE_MARKER}

\* DeepMergeStrategy.getTypeMarker, lines 34-36
getTypeMarker(obj) == obj.o["__type"].s

\* a value in a condition: false for undefined, null, 0 and ""
truthy(v) ==
    CASE v.t \in {"undefined", "null"} -> FALSE
      [] v.t = "number" -> v.n # 0
      [] v.t = "string" -> v.s # ""
      [] OTHER -> TRUE

\* variant: the top-level keys are merged and nothing below them
deepMerge_shallow(target, source) ==
    IF isObject(source) /\ isObject(target)
    THEN Obj(merge(target.o, source.o))
    ELSE source

\* lines 66-157 but for the Class case: target and source are special types
\* of the same marker
mergeSameType(marker, target, source) ==
    LET sourceValue == Get(source, "value")
        targetValue == Get(target, "value")
    IN  CASE marker = TYPE_MARKER.Map ->
               IF sourceValue.t = "array" /\ targetValue.t = "array"
               THEN LET targetEntries == proxyMap(<<>>, toSeq(targetValue))
                        sourceEntries == proxyMap(<<>>, toSeq(sourceValue))
                    IN  Envelope(TYPE_MARKER.Map,
                           fromSeq(proxyMap(<<>>, targetEntries \o sourceEntries)))
               ELSE deepClone(source)
          [] marker = TYPE_MARKER.Set ->
               IF sourceValue.t = "array" /\ targetValue.t = "array"
               THEN Envelope(TYPE_MARKER.Set,
                       fromSeq(proxySet(<<>>, toSeq(targetValue) \o toSeq(sourceValue))))
               ELSE deepClone(source)
          [] marker = TYPE_MARKER.Error ->
               IF typeofObject(sourceValue) /\ typeofObject(targetValue)
               THEN Envelope(TYPE_MARKER.Error,
                       Obj(merge(ownProperties(targetValue),
                                 ownProperties(sourceValue))))
               ELSE deepClone(source)
          [] OTHER -> deepClone(source)

\* DeepMergeStrategy.deepMerge, lines 38-179
RECURSIVE deepMerge(_, _)
deepMerge(target, source) ==
    IF ~typeofObject(source) THEN source
    ELSE IF ~typeofObject(target) THEN deepClone(source)
    ELSE IF source.t = "array"
    THEN IF target.t # "array" THEN deepClone(source) ELSE source
    ELSE IF isSpecialType(source)
    THEN IF isSpecialType(target) /\ getTypeMarker(target) = getTypeMarker(source)
         THEN IF getTypeMarker(source) = TYPE_MARKER.Class
              THEN IF typeofObject(Get(source, "value"))
                        /\ typeofObject(Get(target, "value"))
                   THEN Obj("__type" :> Str(TYPE_MARKER.Class)
                            @@ "className" :>
                                 (IF truthy(Get(source, "className"))
                                  THEN Get(source, "className")
                                  ELSE Get(target, "className"))
                            @@ "value" :> deepMerge(Get(target, "value"),
                                                    Get(source, "value")))
                   ELSE deepClone(source)
              ELSE mergeSameType(getTypeMarker(source), target, source)
         ELSE deepClone(source)
    ELSE LET targetProps == ownProperties(target)
             sourceProps == ownProperties(source)
         IN  Obj([k \in DOMAIN targetProps \cup DOMAIN sourceProps |->
                     IF k \in DOMAIN sourceProps
                     THEN deepMerge(IF k \in DOMAIN targetProps
                                    THEN targetProps[k] ELSE Undefined,
                                    sourceProps[k])
                     ELSE targetProps[k]])

\* new DefaultMergeStrategy().merge(mInitial, mRestored)
DefaultMergeStrategy ==
    /\ mStrategy = "none"
    /\ ms' = [ms EXCEPT !.mStrategy = "default",
                        !.mResult = Obj(merge(mInitial.o, mRestored.o))]
    /\ UNCHANGED notMergeVars

\* new DeepMergeStrategy().merge(mInitial, mRestored), lines 16-18
DeepMergeStrategy ==
    /\ mStrategy = "none"
    /\ ms' = [ms EXCEPT !.mStrategy = "deep",
                        !.mResult = deepMerge(mInitial, mRestored)]
    /\ UNCHANGED notMergeVars

MergeInit ==
    /\ StoreUnused /\ QueueUnused
    /\ SerUnused /\ StorageUnused /\ NoEarlierStore
    /\ \E initial \in MergeStates, restored \in MergeStates :
          ms = [mInitial |-> initial, mRestored |-> restored,
                mStrategy |-> "none", mResult |-> Undefined]

MergeNext == DefaultMergeStrategy \/ DeepMergeStrategy

SpecMerge == MergeInit /\ [][MergeNext]_<<vars, auxVars>>

(***************************************************************************)
(* DeepMergeStrategy on special-type envelopes (deepMerge.ts lines 57-162): *)
(* the states hold one envelope under the key m.  The keys of the entries  *)
(* and the members are strings, numbers and objects.                       *)
(***************************************************************************)
MaxEntries == 2      \* entries or members of the value of one envelope

EnvelopeKeys == {Str("a"), Str("b"), Obj("id" :> Num(1))}
EnvelopeVals == {Num(1), Num(2)}
EnvelopeMembers == {Num(1), Num(2), Obj("id" :> Num(1))}

\* the arrays of at most MaxEntries elements of a set
Arrays(elements) ==
    {fromSeq(s) : s \in UNION {[1..n -> elements] : n \in 0..MaxEntries}}

Envelopes ==
    {Envelope(TYPE_MARKER.Map, a) :
        a \in Arrays({Pair(k, v) : k \in EnvelopeKeys, v \in EnvelopeVals})}
    \cup {Envelope(TYPE_MARKER.Set, a) : a \in Arrays(EnvelopeMembers)}
    \cup {Envelope(TYPE_MARKER.Date, toISOString(DateOf(n))) : n \in {1, 2}}
    \cup {Envelope(TYPE_MARKER.Symbol, Str("s")),
          Envelope(TYPE_MARKER.Function, Str("f")),
          Envelope(TYPE_MARKER.DOMElement, Str("div#x")),
          Envelope(TYPE_MARKER.Error, Obj(ErrorOf("m").o)),
          Envelope(TYPE_MARKER.Map, Null)}

EnvelopeInit ==
    /\ StoreUnused /\ QueueUnused
    /\ SerUnused /\ StorageUnused /\ NoEarlierStore
    /\ \E target \in Envelopes, source \in Envelopes :
          ms = [mInitial |-> Obj("m" :> target), mRestored |-> Obj("m" :> source),
                mStrategy |-> "none", mResult |-> Undefined]

EnvelopeNext == DeepMergeStrategy

SpecEnvelope == EnvelopeInit /\ [][EnvelopeNext]_<<vars, auxVars>>

(***************************************************************************)
(* JSONSerializationStrategy, src/src/serialization/json/json.ts, on trees *)
(* of plain objects, arrays, numbers, strings, null, Date, Map, Set, Error *)
(* and class instances; then the store a later persist() builds from the   *)
(* record (index.ts lines 87-99) with DefaultMergeStrategy.                *)
(***************************************************************************)
\* variant: no case for Map, which is then taken for a class instance
mapEnvelope_asClass(obj) ==
    Obj("__type" :> Str(TYPE_MARKER.Class) @@ "className" :> Str("Map")
        @@ "value" :> Obj(<<>>))

\* json.ts lines 69-74
mapEnvelope(obj) == Envelope(TYPE_MARKER.Map, Arr(obj.o))

RECURSIVE processForSerialization(_)
processForSerialization(obj) ==
    CASE obj.t = "date"   -> Envelope(TYPE_MARKER.Date, toISOString(obj))
      [] obj.t = "map"    -> mapEnvelope(obj)
      [] obj.t = "set"    -> Envelope(TYPE_MARKER.Set, Arr(obj.o))
      [] obj.t = "error"  -> Envelope(TYPE_MARKER.Error, Obj(obj.o))
      [] obj.t = "class"  -> Obj("__type" :> Str(TYPE_MARKER.Class)
                                 @@ "className" :> Str(obj.s)
                                 @@ "value" :> Obj(obj.o))
      [] obj.t = "array"  ->
            Arr([k \in DOMAIN obj.o |-> processForSerialization(obj.o[k])])
      [] obj.t = "object" ->
            Obj([k \in DOMAIN obj.o |-> processForSerialization(obj.o[k])])
      [] OTHER -> obj

\* the value JSON.parse reads back from the text JSON.stringify writes for
\* v: a Date is written by its toJSON, a Map, Set or Error as {}, a class
\* instance as the object of its own properties, undefined as null in an
\* array and not at all in an object
RECURSIVE jsonValue(_)
jsonValue(v) ==
    CASE v.t = "date" -> toISOString(v)
      [] v.t \in {"map", "set", "error"} -> Obj(<<>>)
      [] v.t = "array" ->
            Arr([k \in DOMAIN v.o |->
                    IF v.o[k].t = "undefined" THEN Null ELSE jsonValue(v.o[k])])
      [] v.t \in {"object", "class"} ->
            Obj([k \in {j \in DOMAIN v.o : v.o[j].t # "undefined"} |->
                    jsonValue(v.o[k])])
      [] OTHER -> v

JSONstringify(v) == Value("text", 0, "json", "0" :> jsonValue(v))
JSONparse(text) == text.o["0"]

RECURSIVE processForDeserialization(_)
processForDeserialization(obj) ==
    IF ~isObjectLike(obj) THEN obj
    ELSE IF "__type" \in DOMAIN obj.o /\ obj.o["__type"].t = "string"
    THEN LET typeMarker == obj.o["__type"].s
             value == Get(obj, "value")
         IN  CASE typeMarker = TYPE_MARKER.Date ->
                    IF value.t = "string" THEN newDate(value) ELSE Null
               [] typeMarker = TYPE_MARKER.Map ->
                    IF value.t = "array" THEN MapOf(value.o) ELSE Null
               [] typeMarker = TYPE_MARKER.Set ->
                    IF value.t = "array" THEN SetOf(value.o) ELSE Null
               [] typeMarker = TYPE_MARKER.Symbol ->
                    IF value.t \in {"string", "undefined"}
                    THEN Value("symbol", 0, value.s, <<>>) ELSE Null
               [] typeMarker = TYPE_MARKER.Function ->
                    Value("function", 0, "", <<>>)
               [] typeMarker = TYPE_MARKER.Error ->
                    IF isObjectLike(value)
                    THEN Value("error", 0, "",
                           [message |-> IF Get(value, "message").t = "string"
                                        THEN value.o["message"]
                                        ELSE Str("Unknown error"),
                            name |-> IF Get(value, "name").t = "string"
                                     THEN value.o["name"] ELSE Str("Error"),
                            stack |-> IF Get(value, "stack").t = "string"
                                      THEN value.o["stack"]
                                      ELSE Str("Error: at json.ts")])
                    ELSE Null
               [] typeMarker = TYPE_MARKER.DOMElement -> Null
               [] typeMarker = TYPE_MARKER.Class ->
                    IF isObjectLike(value) THEN value ELSE Null
               [] OTHER -> value
    ELSE IF obj.t = "array"
    THEN Arr([k \in DOMAIN obj.o |-> processForDeserialization(obj.o[k])])
    ELSE Obj([k \in DOMAIN obj.o |-> processForDeserialization(obj.o[k])])

\* JSONSerializationStrategy.serialize and deserialize, lines 18-26
JSONSerialize(state) == JSONstringify(processForSerialization(state))
JSONDeserialize(data) == processForDeserialization(JSONparse(data))

SerLeaves == {Num(1), Str("a"), Null, DateOf(1), ErrorOf("m")}

\* a Map, a Set, an array, a plain object and a class instance around a value
Containers(vals) ==
    UNION {{MapOf("0" :> Pair(Str("a"), v)), SetOf("0" :> v), Arr("0" :> v),
            Obj("a" :> v), ClassOf("Point", "a" :> v)} : v \in vals}

EmptyMap == MapOf(<<>>)

SerValues == SerLeaves \cup Containers(SerLeaves) \cup {EmptyMap}

SerStates == {Obj("m" :> v) : v \in SerValues \cup Containers(SerValues)}

\* the first store writes its record: persistData, index.ts lines 123-130
SerPersist ==
    /\ sPhase = "state"
    /\ ser' = [ser EXCEPT !.sData = JSONSerialize(snapshot(sState)),
                          !.sPhase = "persisted"]
    /\ UNCHANGED notSerVars

\* persist(sInitial, key) finds the record: index.ts lines 90-99
SerConstruct ==
    /\ sPhase = "persisted"
    /\ LET restored == JSONDeserialize(sData)
       IN  ser' = [ser EXCEPT !.sRestored = restored,
                              !.sStore = Obj(merge(sInitial.o, restored.o)),
                              !.sPhase = "constructed"]
    /\ UNCHANGED notSerVars

SerInit ==
    /\ StoreUnused /\ QueueUnused
    /\ MergeUnused /\ StorageUnused /\ NoEarlierStore
    /\ \E state \in SerStates :
          \E initial \in {state, Obj("m" :> EmptyMap), Obj("n" :> Num(1))} :
             ser = [sState |-> state, sInitial |-> initial,
                    sData |-> Undefined, sRestored |-> Undefined,
                    sStore |-> Undefined, sPhase |-> "state"]

SerNext == SerPersist \/ SerConstruct

SpecSer == SerInit /\ [][SerNext]_<<vars, auxVars>>

(***************************************************************************)
(* A store configured with DeepMergeStrategy and the JSON serialization    *)
(* strategy: a state is persisted, then persist(sInitial, key,             *)
(* { mergeStrategy: DeepMergeStrategy }) builds the next store from the    *)
(* record (index.ts lines 87-99).  The states hold under m a Date, a Map,  *)
(* a Set, a JSON value, or an object with a __type of the application's.   *)
(***************************************************************************)
\* objects whose __type is no marker of TYPE_MARKER
CustomTyped ==
    {Obj("__type" :> Str("custom") @@ "x" :> Num(1)),
     Obj("__type" :> Str("custom") @@ "value" :> Num(2) @@ "x" :> Num(1))}

DeepValues ==
    {DateOf(1), DateOf(2), EmptyMap, MapOf("0" :> Pair(Str("a"), Num(1))),
     SetOf(<<>>), SetOf("0" :> Num(1)), Num(1), Str("a"), Obj("a" :> Num(1)),
     Obj("d" :> DateOf(1))}
    \cup CustomTyped

\* what initialState holds: nothing under m, or a value under m
DeepInitials ==
    {Obj("n" :> Num(1))}
    \cup {Obj("m" :> v) : v \in {Null, DateOf(2), EmptyMap, SetOf(<<>>),
                                 Obj("x" :> Num(2))}}

\* persist(sInitial, key, { mergeStrategy: DeepMergeStrategy }) finds the
\* record: index.ts lines 90-99
SerConstructDeep ==
    /\ sPhase = "persisted"
    /\ LET restored == JSONDeserialize(sData)
       IN  ser' = [ser EXCEPT !.sRestored = restored,
                              !.sStore = deepMerge(sInitial, restored),
                              !.sPhase = "constructed"]
    /\ UNCHANGED notSerVars

DeepInit ==
    /\ StoreUnused /\ QueueUnused
    /\ MergeUnused /\ StorageUnused /\ NoEarlierStore
    /\ \E v \in DeepValues, initial \in DeepInitials :
          ser = [sState |-> Obj("m" :> v), sInitial |-> initial,
                 sData |-> Undefined, sRestored |-> Undefined,
                 sStore |-> Undefined, sPhase |-> "state"]

DeepNext == SerPersist \/ SerConstructDeep

SpecDeep == DeepInit /\ [][DeepNext]_<<vars, auxVars>>

(***************************************************************************)
(* Stores over MemoryStorageStrategy (src/src/storage/memoryStorage.ts):   *)
(* persist() makes its storage with new o.storageStrategy() (index.ts line *)
(* 60), and an instance of MemoryStorageStrategy keeps its records in a    *)
(* Map of its own (line 8).  The strategy has syncGet and syncSet.         *)
(***************************************************************************)
MemoryOptions ==
    {opts \in Options : opts.sync /\ opts.gate = "always" /\ opts.fault = "none"}

\* new MemoryStorageStrategy()
NewMemoryStorage == [k \in StorageKeys |-> NoRecord]

\* a later persist(init, key, { storageStrategy: MemoryStorageStrategy }),
\* init a new object or the object given to the call before
ConstructMemory(init) ==
    /\ Quiescent
    /\ calls < MaxCalls
    /\ calls' = calls + 1
    /\ prevRecord' = backend[key]
    /\ Start(init, o, NewMemoryStorage)
    /\ UNCHANGED <<queueVars, mergeVars, serVars, stoVars>>

MemoryInit ==
    /\ \E init \in InitialStates, opts \in MemoryOptions :
          InitWith(init, opts, NewMemoryStorage)
    /\ AuxInit

MemoryNext ==
    \/ \E f \in Fields, v \in Vals : Mutate(f, v)
    \/ SubscribeCallback
    \/ Tick
    \/ TimerFire
    \/ Persist
    \/ Clear
    \/ Restore
    \/ RestoreApply
    \/ \E init \in InitialStates \cup {initialState} : ConstructMemory(init)

SpecMemory == MemoryInit /\ [][MemoryNext]_<<vars, auxVars>>

(***************************************************************************)
(* The storage strategies as maps from keys to texts: LocalStorageStrategy *)
(* (src/unnamed/part_004), MemoryStorageStrategy and SingleFileStrategy    *)
(* (src/unnamed/part_002, its file loaded), called one call at a time.     *)
(***************************************************************************)
MaxStorageCalls == 3   \* calls on the instance in one behaviour

StorageKinds == {"LocalStorage", "MemoryStorage", "SingleFile"}
StorageTexts == {"", "v", "w"}

\* the strategy reads with  value || null
FalsyIsNull(kind) == kind \in {"MemoryStorage", "SingleFile"}

\* get(key): what the promise resolves to, <<>> for null
storageGet(kind, records, k) ==
    IF FalsyIsNull(kind) /\ records[k] = <<"">> THEN <<>> ELSE records[k]

\* has(key)
storageHas(kind, records, k) == records[k] # <<>>

StorageOp(op, k, result) == [op |-> op, key |-> k, result |-> result]

StorageSet(k, text) ==
    /\ stCalls < MaxStorageCalls
    /\ sto' = [sto EXCEPT !.stCalls = stCalls + 1,
                          !.stRecords = [stRecords EXCEPT ![k] = <<text>>],
                          !.stRef = [stRef EXCEPT ![k] = <<text>>],
                          !.stOp = StorageOp("set", k, <<>>)]
    /\ UNCHANGED notStoVars

StorageRemove(k) ==
    /\ stCalls < MaxStorageCalls
    /\ sto' = [sto EXCEPT !.stCalls = stCalls + 1,
                          !.stRecords = [stRecords EXCEPT ![k] = <<>>],
                          !.stRef = [stRef EXCEPT ![k] = <<>>],
                          !.stOp = StorageOp("remove", k, <<>>)]
    /\ UNCHANGED notStoVars

StorageGet(k) ==
    /\ stCalls < MaxStorageCalls
    /\ sto' = [sto EXCEPT !.stCalls = stCalls + 1,
                          !.stOp = StorageOp("get", k,
                                             storageGet(stKind, stRecords, k))]
    /\ UNCHANGED notStoVars

StorageHas(k) ==
    /\ stCalls < MaxStorageCalls
    /\ sto' = [sto EXCEPT !.stCalls = stCalls + 1,
                          !.stOp = StorageOp("has", k,
                                      <<storageHas(stKind, stRecords, k)>>)]
    /\ UNCHANGED notStoVars

StorageInit ==
    /\ StoreUnused /\ QueueUnused
    /\ MergeUnused /\ SerUnused /\ NoEarlierStore
    /\ \E kind \in StorageKinds :
          sto = [stKind |-> kind,
                 stRecords |-> [k \in StorageKeys |-> <<>>],
                 stRef |-> [k \in StorageKeys |-> <<>>],
                 stOp |-> StorageOp("new", key, <<>>),
                 stCalls |-> 0]

StorageNext ==
    \/ \E k \in StorageKeys, text \in StorageTexts : StorageSet(k, text)
    \/ \E k \in StorageKeys : StorageRemove(k)
    \/ \E k \in StorageKeys : StorageGet(k)
    \/ \E k \in StorageKeys : StorageHas(k)

SpecStorage == StorageInit /\ [][StorageNext]_<<vars, auxVars>>

(***************************************************************************)
(* The storage strategies when the native call under a method fails:       *)
(* LocalStorageStrategy (src/unnamed/part_004) and SessionStorageStrategy  *)
(* (src/unnamed/part_003) call the Web Storage API bare; the methods of    *)
(* AsyncStorageStrategy (src/src/storage/asyncStorage.ts) and              *)
(* SQLiteStrategy (src/src/storage/sqlLite.ts) wrap their body in          *)
(* try/catch.  nativeFails: the native call of this method throws or       *)
(* rejects (quota exceeded, I/O error, storage disabled).                  *)
(***************************************************************************)
AdapterKinds == {"LocalStorage", "SessionStorage", "AsyncStorage", "SQLite"}
AdapterTexts == {"v", "w"}

\* the method body is inside try { ... } catch (error) { console.error(...) }
hasTryCatch(kind) == kind \in {"AsyncStorage", "SQLite"}

\* what the method gives when nothing fails: <<>> for null and for void
nativeResult(op, records, k) ==
    CASE op = "has" -> <<records[k] # <<>>>>
      [] op = "get" -> records[k]
      [] OTHER -> <<>>

\* what the catch block returns
catchResult(op) == IF op = "has" THEN <<FALSE>> ELSE <<>>

\* the records after the native call has succeeded
nativeEffect(op, records, k, text) ==
    CASE op = "set" -> [records EXCEPT ![k] = <<text>>]
      [] op = "remove" -> [records EXCEPT ![k] = <<>>]
      [] OTHER -> records

AdapterOp(op, k, failed, outcome, result) ==
    [op |-> op, key |-> k, failed |-> failed, outcome |-> outcome,
     result |-> result]

\* the instance after one call of a method has settled
adapterCall(s, op, k, text, nativeFails) ==
    [s EXCEPT
       !.stCalls = s.stCalls + 1,
       !.stRecords = IF nativeFails THEN s.stRecords
                     ELSE nativeEffect(op, s.stRecords, k, text),
       !.stOp = IF ~nativeFails
                THEN AdapterOp(op, k, FALSE, "resolved",
                               nativeResult(op, s.stRecords, k))
                ELSE IF hasTryCatch(s.stKind)
                THEN AdapterOp(op, k, TRUE, "resolved", catchResult(op))
                ELSE AdapterOp(op, k, TRUE, "rejected", <<>>)]

AdapterHas(k, nativeFails) ==
    /\ stCalls < MaxStorageCalls
    /\ sto' = adapterCall(sto, "has", k, "", nativeFails)
    /\ UNCHANGED notStoVars

AdapterGet(k, nativeFails) ==
    /\ stCalls < MaxStorageCalls
    /\ sto' = adapterCall(sto, "get", k, "", nativeFails)
    /\ UNCHANGED notStoVars

AdapterSet(k, text, nativeFails) ==
    /\ stCalls < MaxStorageCalls
    /\ sto' = adapterCall(sto, "set", k, text, nativeFails)
    /\ UNCHANGED notStoVars

AdapterRemove(k, nativeFails) ==
    /\ stCalls < MaxStorageCalls
    /\ sto' = adapterCall(sto, "remove", k, "", nativeFails)
    /\ UNCHANGED notStoVars

AdapterInit ==
    /\ StoreUnused /\ QueueUnused
    /\ MergeUnused /\ SerUnused /\ NoEarlierStore
    /\ \E kind \in AdapterKinds :
          sto = [stKind |-> kind,
                 stRecords |-> [k \in StorageKeys |-> <<>>],
                 stRef |-> [k \in StorageKeys |-> <<>>],
                 stOp |-> AdapterOp("new", key, FALSE, "resolved", <<>>),
                 stCalls |-> 0]

AdapterNext ==
    \/ \E k \in StorageKeys, f \in BOOLEAN : AdapterHas(k, f)
    \/ \E k \in StorageKeys, f \in BOOLEAN : AdapterGet(k, f)
    \/ \E k \in StorageKeys, text \in AdapterTexts, f \in BOOLEAN :
          AdapterSet(k, text, f)
    \/ \E k \in StorageKeys, f \in BOOLEAN : AdapterRemove(k, f)

SpecAdapter == AdapterInit /\ [][AdapterNext]_<<vars, auxVars>>

(***************************************************************************)
(*                              Properties                                 *)
(***************************************************************************)

\* persist(initialState, key) without options
(***************************************************************************)
(* The file-backed strategies, MultiFileStrategy (asyncStorage.ts lines    *)
(* 68-176) and FileSystemApiStrategy (sqlLite.ts lines 169-331), which     *)
(* keep the record of a key in the file named after it, beside             *)
(* AsyncStorageStrategy, which hands the key to the native store.  A key   *)
(* is a sequence of characters; calls are made one at a time.              *)
(***************************************************************************)
FileKinds == {"MultiFile", "FileSystemApi", "AsyncStorage"}

FileKeys == {<<"a", "/", "b">>, <<"a", ":", "b">>, <<"a", "_", "b">>, <<"c">>}

\* the character class of the regular expression  /[/\\?%*:|"<>]/g
UnsafeChars == {"/", "\\", "?", "%", "*", ":", "|", "\"", "<", ">"}

\* key.replace(/[/\\?%*:|"<>]/g, "_")
safeKey(k) == [i \in 1..Len(k) |-> IF k[i] \in UnsafeChars THEN "_" ELSE k[i]]

\* where the strategy keeps the record of a key: the file
\* `${safeKey}.json` of its directory, or the key in the native store
getFilePath(kind, k) ==
    IF kind \in {"MultiFile", "FileSystemApi"}
    THEN safeKey(k) \o <<".json">>
    ELSE k

\* get(key) and has(key) on the files or native records
fileGet(kind, records, k) == records[getFilePath(kind, k)]
fileHas(kind, records, k) == records[getFilePath(kind, k)] # <<>>

\* set(key, value): writeFile / createWritable and write / setItem
FileSet(k, text) ==
    /\ stCalls < MaxStorageCalls
    /\ sto' = [sto EXCEPT !.stCalls = stCalls + 1,
                          !.stRecords[getFilePath(stKind, k)] = <<text>>,
                          !.stOp = StorageOp("set", k, <<>>)]
    /\ UNCHANGED notStoVars

\* remove(key): unlink / removeEntry / removeItem
FileRemove(k) ==
    /\ stCalls < MaxStorageCalls
    /\ sto' = [sto EXCEPT !.stCalls = stCalls + 1,
                          !.stRecords[getFilePath(stKind, k)] = <<>>,
                          !.stOp = StorageOp("remove", k, <<>>)]
    /\ UNCHANGED notStoVars

FileInit ==
    /\ StoreUnused /\ QueueUnused
    /\ MergeUnused /\ SerUnused /\ NoEarlierStore
    /\ \E kind \in FileKinds :
          sto = [stKind |-> kind,
                 stRecords |-> [p \in {getFilePath(kind, k) : k \in FileKeys}
                                  |-> <<>>],
                 stOp |-> StorageOp("new", <<>>, <<>>),
                 stCalls |-> 0]

FileNext ==
    \/ \E k \in FileKeys, text \in AdapterTexts : FileSet(k, text)
    \/ \E k \in FileKeys : FileRemove(k)

SpecFile == FileInit /\ [][FileNext]_<<vars, auxVars>>

(***************************************************************************)
(* SingleFileStrategy (src/unnamed/part_002) with two calls that overlap:  *)
(* call 1 acts on key, call 2 on otherKey, each a set or a remove.  The    *)
(* file exists and holds an object of records; every await of a call is a  *)
(* point where the other call may run.                                     *)
(***************************************************************************)
SingleFileCalls == {1, 2}
callKey == <<key, otherKey>>

sfFile == sto.file                  \* the object in the file at filePath
sfCache == sto.cache                \* the cache field
sfInitialized == sto.initialized    \* the initialized field
sfCalls == sto.calls                \* the calls: where each stands, the text
                                    \* of a set (<<>> for remove), what it
                                    \* read, what it writes

\* set(key, value) or remove(key) is called: loadFromFile up to its first
\* await, lines 50-58
SingleFileCall(i) ==
    /\ sfCalls[i].pc = "new"
    /\ sto' = [sto EXCEPT !.calls[i].pc =
                             IF sfInitialized THEN "loaded" ELSE "reading"]
    /\ UNCHANGED notStoVars

\* fs.readFile reads the file, line 58
readFile(i) ==
    /\ sfCalls[i].pc = "reading"
    /\ sto' = [sto EXCEPT !.calls[i].pc = "read", !.calls[i].data = sfFile]
    /\ UNCHANGED notStoVars

\* loadFromFile after the await of readFile, lines 60-75
loadFromFile(i) ==
    /\ sfCalls[i].pc = "read"
    /\ sto' = [sto EXCEPT !.calls[i].pc = "loaded",
                          !.cache = sfCalls[i].data,
                          !.initialized = TRUE]
    /\ UNCHANGED notStoVars

\* set/remove after the await of loadFromFile, lines 116-117 and 126-127,
\* with saveToFile up to its await, lines 84-87
saveToFile(i) ==
    /\ sfCalls[i].pc = "loaded"
    /\ LET cache == [sfCache EXCEPT ![callKey[i]] = sfCalls[i].text]
       IN  sto' = [sto EXCEPT !.calls[i].pc = "writing",
                              !.calls[i].content = cache,
                              !.cache = cache]
    /\ UNCHANGED notStoVars

\* fs.writeFile has written the file, line 87: the call resolves
writeFile(i) ==
    /\ sfCalls[i].pc = "writing"
    /\ sto' = [sto EXCEPT !.calls[i].pc = "done",
                          !.file = sfCalls[i].content]
    /\ UNCHANGED notStoVars

SingleFileInit ==
    /\ StoreUnused /\ QueueUnused
    /\ MergeUnused /\ SerUnused /\ NoEarlierStore
    /\ \E file \in [StorageKeys -> {<<>>, <<"u">>}],
          texts \in [SingleFileCalls -> {<<>>, <<"v">>, <<"w">>}] :
          sto = [stKind |-> "SingleFile",
                 file |-> file,
                 cache |-> [k \in StorageKeys |-> <<>>],
                 initialized |-> FALSE,
                 calls |-> [i \in SingleFileCalls |->
                              [pc |-> "new", text |-> texts[i],
                               data |-> file, content |-> file]]]

SingleFileNext ==
    \E i \in SingleFileCalls :
        \/ SingleFileCall(i)
        \/ readFile(i)
        \/ loadFromFile(i)
        \/ saveToFile(i)
        \/ writeFile(i)

SpecSingleFile == SingleFileInit /\ [][SingleFileNext]_<<vars, auxVars>>

DefaultOptions ==
    o.sync /\ o.restoreStateOnInit /\ o.gate = "always" /\ o.fault = "none"

\* C1: with the default options, when a manual persist() has resolved the
\* record under the key is the serialization of the store as it was at the
\* call, and a store constructed afterwards on the same backend starts with
\* the recorded value of every key of the record.
C1_PersistThenReconstruct ==
    DefaultOptions =>
        /\ ev.op = "persist" =>
              ev.res = "resolved" /\ backend[key] = serialize(store)
        /\ (ev.op = "persist()" /\ calls > 0 /\ Parses(backend[key])) =>
              /\ alive
              /\ LET rec == deserialize(backend[key])
                 IN  \A f \in DOMAIN rec : f \in DOMAIN store /\ store[f] = rec[f]

C1_Witness ==
    /\ DefaultOptions /\ alive /\ calls = 3 /\ ev.op = "persist()"
    /\ backend[key] = serialize("a" :> 1)
    /\ origInitial = ("a" :> 0 @@ "b" :> 0)
    /\ store = ("a" :> 1 @@ "b" :> 0)

\* C2: with restoreStateOnInit and a synchronous read that returns a record,
\* the store persist() returns holds the record's value for every key of the
\* record and initialState's value for every other key of initialState.
C2_SyncRestoreFirstState ==
    (ev.op = "persist()" /\ alive /\ o.sync /\ o.restoreStateOnInit
        /\ backend[key] # NoRecord) =>
        LET rec == deserialize(backend[key])
        IN  /\ DOMAIN store = DOMAIN origInitial \cup DOMAIN rec
            /\ \A f \in DOMAIN store :
                  store[f] = IF f \in DOMAIN rec THEN rec[f] ELSE origInitial[f]

C2_Witness ==
    /\ ev.op = "persist()" /\ alive /\ o.sync /\ o.restoreStateOnInit
    /\ backend[key] = serialize("b" :> 1)
    /\ origInitial = ("a" :> 0 @@ "b" :> 0)
    /\ store = ("a" :> 0 @@ "b" :> 1)

WriteOps ==
    {"persist", "timer", "persistSettled", "timerSettled", "clear", "clearSettled"}

C5_DebounceCoalesces ==
    o.gate = "always" =>
        /\ autoWrites <= 1
        /\ ev.op = "timer" =>
              /\ sinceMut >= DebounceTime
              /\ autoWrites = 1
              /\ (o.sync /\ o.fault # "set") => backend[key] = serialize(store)
              /\ ~o.sync => /\ inflight # <<>>
                            /\ inflight[Len(inflight)].text = serialize(store)
        /\ (autoWrites = 0 /\ ~notifyPending) => timer >= 0

C5_Witness ==
    /\ o.gate = "always" /\ o.sync /\ ~o.restoreStateOnInit /\ o.fault = "none"
    /\ ev.op = "timer" /\ calls = 2 /\ autoWrites = 1
    /\ origInitial = ("a" :> 0 @@ "b" :> 0)
    /\ store = ("a" :> 1 @@ "b" :> 1)
    /\ backend[key] = serialize(store)

\* C6: a subscription callback whose gate returns false writes nothing and
\* arms no timer (a timer armed by an earlier accepted change is left as it
\* was: what it does is that change's consequence), and previousState still
\* becomes the state the callback saw.
C6_GateSkipAdvances ==
    [][(ev'.op = "subscribe" /\ ~shouldPersist(o.gate, previousState, store)) =>
          /\ previousState' = store
          /\ timer' = timer /\ timeoutId' = timeoutId
          /\ backend' = backend /\ inflight' = inflight]_vars

C6_Witness ==
    /\ o.gate = "evenA" /\ ev.op = "subscribe" /\ ev.res = "skipped"
    /\ timer >= 0
    /\ previousState = store /\ store["a"] = 1

\* C7: a manual persist() evaluates the gate on (previousState, current
\* snapshot); turned down, it resolves with no set call and the record
\* untouched; let through, it writes the current snapshot.
C7_ManualPersistGated ==
    [][ev'.op = "persist" =>
          IF ~shouldPersist(o.gate, previousState, store)
          THEN ev'.res = "resolved" /\ backend' = backend /\ inflight' = inflight
          ELSE /\ (o.sync /\ o.fault # "set") =>
                     (ev'.res = "resolved" /\ backend'[key] = serialize(store))
               /\ ~o.sync =>
                     inflight' = Append(inflight, [text |-> serialize(store),
                                                   manual |-> TRUE])]_vars

C7_Witness ==
    /\ o.gate = "evenA" /\ o.sync /\ ev.op = "persist" /\ ev.res = "resolved"
    /\ store["a"] = 1 /\ previousState["a"] = 0
    /\ backend[key] = NoRecord

\* C8: with a strategy whose set always fails, a manual persist() never
\* throws and its promise resolves, the failure being logged.
C8_PersistSwallowsSetFailure ==
    o.fault = "set" =>
        /\ ev.op = "persist" => ev.res \in {"resolved", "pending"}
        /\ ev.op = "persistSettled" => (ev.res = "resolved" /\ ev.log)

\* C9: restore() and clear() never reject or throw when get or remove fails
\* or the record cannot be deserialized: restore() resolves false with the
\* store unchanged, clear() resolves.
C9_RestoreClearNeverReject ==
    /\ ev.op \in {"restore", "restoreSettled", "clear", "clearSettled"} =>
          ev.res # "rejected"
    /\ (ev.op \in {"restore", "restoreSettled"} /\ o.fault = "get") =>
          ev.res \in {"pending", "false"}

\* C10: restore() applied to a well-formed answer of the backend: with a
\* record it assigns every key of merge(initialState as passed to persist(),
\* deserialize(record)) onto the store and resolves true; without a record
\* it resolves false and leaves the store as it is.
C10_RestoreMergesOriginal ==
    [][(ev'.op = "restoreSettled" /\ rs.pc = "apply"
          /\ (rs.data = NoRecord \/ Parses(rs.data))) =>
          IF rs.data # NoRecord
          THEN /\ ev'.res = "true"
               /\ store' = updateStore(store, merge(origInitial, deserialize(rs.data)))
          ELSE ev'.res = "false" /\ store' = store]_vars

\* C11: a clear() that resolves has removed the record under the store's
\* key, and no step of a clear() changes the store, the previous snapshot,
\* the pending timer, the unsettled writes or the record of another key.
C11_ClearRemovesOnlyRecord ==
    [][ev'.op \in {"clear", "clearSettled"} =>
          /\ ev'.res = "resolved" => backend'[key] = NoRecord
          /\ ev'.res # "resolved" => backend'[key] = backend[key]
          /\ \A k \in StorageKeys \ {key} : backend'[k] = backend[k]
          /\ store' = store /\ initialState' = initialState
          /\ previousState' = previousState
          /\ timer' = timer /\ inflight' = inflight]_vars

C11_Witness ==
    /\ ev.op = "clearSettled" /\ ev.res = "resolved" /\ calls = 2
    /\ autoWrites = 1 /\ inflight = <<>>
    /\ backend[key] = NoRecord /\ backend[otherKey] = OtherRecord
    /\ store = ("a" :> 1 @@ "b" :> 0) /\ previousState = store

\* C12: a restore() called right after a clear() has resolved, with no
\* storage.set unsettled and no assignment or persist() before it settles,
\* resolves false and leaves the store as it is.
C12_RestoreAfterClearFalse ==
    [][(o.fault = "none" /\ afterClear = "restoring"
          /\ ev'.op = "restoreSettled") =>
          (ev'.res = "false" /\ store' = store)]_vars

\* C14: with an asynchronous-only strategy persist() never throws; a failed
\* background restoration is logged and leaves the store as it was (equal to
\* initialState when nothing else changed it); and after it a change still
\* arms the timer whose write carries the store.
C14_RestorationFailureContained ==
    /\ [](~o.sync => alive)
    /\ []((ev.op = "restoration" /\ ev.res = "failed") =>
            (ev.log /\ (autoWrites = -1 => store = origInitial)))
    /\ [][(ev'.op = "restoration" /\ ev'.res = "failed") =>
            (store' = store /\ previousState' = previousState /\ alive')]_vars
    /\ []((~o.sync /\ o.restoreStateOnInit /\ o.fault = "get" /\ bg.pc = "idle") =>
            /\ (autoWrites = 0 /\ ~notifyPending) => timer >= 0
            /\ ev.op = "timer" =>
                  /\ inflight # <<>>
                  /\ inflight[Len(inflight)].text = serialize(store))

C14_Witness ==
    /\ ~o.sync /\ o.restoreStateOnInit /\ o.fault = "get" /\ bg.pc = "idle"
    /\ ev.op = "timerSettled" /\ ev.res = "resolved"
    /\ store = ("a" :> 1) /\ backend[key] = serialize(store)

\* C13: PersistQueue never has two persistFunction calls executing; a timer
\* that fires while one executes leaves it alone and queues its job; and when
\* that call settles the queued job is taken at once: its persistFunction
\* call is made with the latest snapshot.
C13_OneWriteAtATime ==
    /\ [](Len(executing) <= 1)
    /\ [][(qev'.op = "timer" /\ qev'.res # "uncaught" /\ executing # <<>>) =>
            (executing' = executing /\ queue' = <<"job">>
                /\ qev'.res = "deferred")]_queueVars
    /\ [][(qev'.op = "settled" /\ queue # <<>>) =>
            /\ queue' = <<>>
            /\ qev'.res \in {"started", "threw"}
            /\ qev'.res = "started" => executing' = <<latestSnapshot>>]_queueVars

C13_Witness ==
    /\ qev.op = "settled" /\ qev.res = "started"
    /\ executing = <<2>> /\ latestSnapshot = 2 /\ queue = <<>> /\ inProgress

\* C15: DefaultMergeStrategy.merge returns an object whose keys are those of
\* both arguments; a key of restored has restored's value, whole, and every
\* other key has initial's value; merge({a:1,b:2},{b:3,c:4}) = {a:1,b:3,c:4}.
C15_DefaultMergeTopLevel ==
    mStrategy = "default" =>
        /\ isObject(mResult)
        /\ DOMAIN mResult.o = DOMAIN mInitial.o \cup DOMAIN mRestored.o
        /\ \A k \in DOMAIN mRestored.o : mResult.o[k] = mRestored.o[k]
        /\ \A k \in DOMAIN mInitial.o \ DOMAIN mRestored.o :
              mResult.o[k] = mInitial.o[k]
        /\ (mInitial = Obj("a" :> Num(1) @@ "b" :> Num(2))
              /\ mRestored = Obj("b" :> Num(3) @@ "c" :> Num(4))) =>
              mResult = Obj("a" :> Num(1) @@ "b" :> Num(3) @@ "c" :> Num(4))

C15_Witness ==
    /\ mStrategy = "default"
    /\ mInitial = Obj("a" :> Obj("a" :> Num(1) @@ "b" :> Num(2)) @@ "b" :> Num(1))
    /\ mRestored = Obj("a" :> Obj("b" :> Num(1)))
    /\ mResult = Obj("a" :> Obj("b" :> Num(1)) @@ "b" :> Num(1))

\* r is the deep merge of s into t as the claim words it: a restored value
\* that is no plain object wins; a plain object restored over none is taken
\* as it is; two plain objects give the union of their keys, with initial's
\* value under a key restored lacks and the deep merge under every other key
RECURSIVE IsDeepMerge(_, _, _)
IsDeepMerge(t, s, r) ==
    IF ~isObject(s) \/ ~isObject(t)
    THEN r = s
    ELSE /\ isObject(r)
         /\ DOMAIN r.o = DOMAIN t.o \cup DOMAIN s.o
         /\ \A k \in DOMAIN t.o \ DOMAIN s.o : r.o[k] = t.o[k]
         /\ \A k \in DOMAIN s.o : IsDeepMerge(Get(t, k), s.o[k], r.o[k])

\* C16: DeepMergeStrategy.merge merges plain objects at every depth;
\* merge({x:{a:1,b:2}}, {x:{b:3}}) = {x:{a:1,b:3}}.
C16_DeepMergeRecursive ==
    mStrategy = "deep" =>
        /\ IsDeepMerge(mInitial, mRestored, mResult)
        /\ (mInitial = Obj("x" :> Obj("a" :> Num(1) @@ "b" :> Num(2)))
              /\ mRestored = Obj("x" :> Obj("b" :> Num(3)))) =>
              mResult = Obj("x" :> Obj("a" :> Num(1) @@ "b" :> Num(3)))

C16_Witness ==
    /\ mStrategy = "deep"
    /\ mInitial = Obj("a" :> Obj("a" :> Num(1) @@ "b" :> Num(2)) @@ "b" :> Num(1))
    /\ mRestored = Obj("a" :> Obj("b" :> Null) @@ "b" :> Obj("a" :> Num(2)))
    /\ mResult = Obj("a" :> Obj("a" :> Num(1) @@ "b" :> Null)
                     @@ "b" :> Obj("a" :> Num(2)))

\* structural comparison: a class instance counts as the plain object of
\* its own properties
RECURSIVE Plain(_)
Plain(v) ==
    Value(IF v.t = "class" THEN "object" ELSE v.t, v.n,
          IF v.t = "class" THEN "" ELSE v.s,
          [k \in DOMAIN v.o |-> Plain(v.o[k])])

\* C17: deserialize(serialize(x)) is structurally equal to x for states of
\* JSON values, Date, Map, Set, Error and class instances, nested in any way.
C17_RoundTrip ==
    sPhase = "constructed" => Plain(sRestored) = Plain(sState)

JSONLeaves == {Num(1), Str("a"), Null}

C19_MemoryStorageRestores ==
    (ev.op = "persist()" /\ calls > 0 /\ prevRecord # NoRecord) =>
        LET rec == deserialize(prevRecord)
        IN  \A f \in DOMAIN rec : f \in DOMAIN store /\ store[f] = rec[f]

\* C20: get and has answer as the partial map the set and remove calls so
\* far describe: get(k) resolves to the text last set under k, to null when
\* there is none or it was removed; has(k) to whether there is one.
C20_StorageIsPartialMap ==
    /\ stOp.op = "get" => stOp.result = stRef[stOp.key]
    /\ stOp.op = "has" => stOp.result = <<stRef[stOp.key] # <<>>>>

\* C21: a method of a storage strategy whose native call fails still
\* resolves, with the absent result: false for has, null for get, nothing
\* for set and remove.
C21_AdapterCatchesFailure ==
    stOp.failed =>
        /\ stOp.outcome = "resolved"
        /\ stOp.result = (IF stOp.op = "has" THEN <<FALSE>> ELSE <<>>)

\* C22: with an asynchronous strategy at most one storage.set of the store
\* is unsettled at any time.
C22_OneSetInFlight == (~o.sync /\ o.fault = "none") => Len(inflight) <= 1

\* C23: whatever the number of add() calls, one timeout of add() at most is
\* armed; add() itself makes no job and does not call getSnapshot; and the
\* callback of the timeout calls getSnapshot and makes a single job, which
\* carries the state at that moment.
C23_AddsCoalesce ==
    /\ [](debounceTimer <= 1 /\ fired + debounceTimer <= adds)
    /\ [][adds' # adds =>
            /\ debounceTimer' = 1 /\ fired' = fired
            /\ queue' = queue /\ executing' = executing
            /\ latestSnapshot' = latestSnapshot]_queueVars
    /\ [][(fired' # fired /\ qev'.res # "uncaught") =>
            /\ debounceTimer' = 0
            /\ latestSnapshot' = appState
            /\ qev'.res = "started" => executing' = Append(executing, appState)
            /\ qev'.res = "deferred" => queue' = <<"job">>]_queueVars

C23_Witness ==
    /\ adds = 2 /\ fired = 1 /\ debounceTimer = 0
    /\ qev.op = "timer" /\ qev.res = "started"
    /\ appState = 2 /\ executing = <<2>> /\ queue = <<>>

\* C24: the queue of PersistQueue never holds more than one job; the callback
\* of a timeout that finds a job queued behind an executing write puts its
\* own job in that job's place and leaves the write alone.
C24_QueueDepthOne ==
    /\ [](Len(queue) <= 1)
    /\ [][(fired' # fired /\ qev'.res # "uncaught" /\ queue # <<>>) =>
            /\ queue' = <<"job">>
            /\ dropped' = dropped + 1
            /\ executing' = executing]_queueVars

C24_Witness ==
    /\ qev.op = "timer" /\ qev.res = "deferred"
    /\ dropped = 1 /\ queue = <<"job">> /\ Len(executing) = 1 /\ inProgress

\* C25: a persistFunction call that has started stays executing until its
\* promise settles; a job leaves the queue only when the executing call has
\* settled, resolved or rejected, and it is taken in that very step, with no
\* timeout armed for it.
C25_DrainAfterWrite ==
    /\ [][\/ qev'.op = "settled"
          \/ /\ Len(executing') >= Len(executing)
             /\ SubSeq(executing', 1, Len(executing)) = executing]_queueVars
    /\ [][(queue # <<>> /\ queue' = <<>>) => qev'.op = "settled"]_queueVars
    /\ [][(qev'.op = "settled" /\ queue # <<>>) =>
            /\ queue' = <<>>
            /\ qev'.res \in {"started", "threw"}
            /\ debounceTimer' = debounceTimer /\ fired' = fired]_queueVars

C25_Witness ==
    /\ qev = QEvent("settled", "started", TRUE)
    /\ adds = 2 /\ fired = 2 /\ debounceTimer = 0
    /\ executing = <<1>> /\ latestSnapshot = 1 /\ queue = <<>>

\* C26: a failing write of PersistQueue is caught and logged and leaves the
\* queue working: no step ends in an uncaught error, a persistFunction that
\* throws is logged, and inProgress is set only while a call is executing.
C26_QueueFailureContained ==
    /\ qev.res # "uncaught"
    /\ qev.res = "threw" => qev.log
    /\ inProgress => executing # <<>>

\* C27: when the subscribe callback has turned a change down while the
\* timeout of the debounced write was armed, the callback of that timeout
\* writes nothing: it neither changes the backend nor calls storage.set.
C27_RejectedChangeCancels ==
    [][(ev.op = "subscribe" /\ ev.res = "skipped" /\ timer = 0
          /\ ev'.op = "timer") =>
          (backend' = backend /\ inflight' = inflight)]_vars

\* C28: when the callback of the debounce timeout evaluates
\* shouldPersist(previousState, currentState), previousState is the state
\* before the last change, so it differs from the current state.
C28_GatePrevIsBeforeLastChange ==
    [][ev'.op = "timer" => previousState # snapshot(store)]_vars

\* C29: with a storage that accepts writes and no background restoration,
\* when a single call of application code has changed the store and the
\* subscribe callback has armed the debounce timeout for it, the callback of
\* the timeout writes the state: it calls syncSet or set with the serialized
\* store.
C29_AcceptedChangeIsWritten ==
    [][(ev'.op = "timer" /\ calls = 1 /\ o.fault = "none"
          /\ (o.sync \/ ~o.restoreStateOnInit)) =>
          /\ autoWrites' = 1
          /\ IF o.sync
             THEN backend'[key] = serialize(store)
             ELSE inflight' = Append(inflight, [text |-> serialize(store),
                                                manual |-> FALSE])]_vars

\* C30: when the background restoration of an asynchronous-only strategy
\* applies a record, every key of merge(initialState, restored), with
\* initialState as it was given to persist(), gets the merged value in the
\* store, whatever was assigned to it in the meantime; the other keys of the
\* store keep their values.
C30_RestorationOverwritesEdits ==
    [][(ev'.op = "restoration" /\ ev'.res = "restored") =>
          LET merged == merge(origInitial, deserialize(bg.data))
          IN  /\ DOMAIN store' = DOMAIN store \cup DOMAIN merged
              /\ \A k \in DOMAIN merged : store'[k] = merged[k]
              /\ \A k \in DOMAIN store \ DOMAIN merged : store'[k] = store[k]]_vars

\* C31: when the write made by the debounce timer fails (a set that always
\* fails: syncSet throws in the timer callback, or the promise of set
\* rejects), the failure is caught and logged: nothing is thrown out of the
\* timer callback and no promise is left rejected without a handler.
C31_AutoWriteFailureContained ==
    o.fault = "set" =>
        /\ (o.sync /\ ev.op = "timer") =>
              (ev.res \notin {"uncaught", "unhandled"} /\ ev.log)
        /\ ev.op = "timerSettled" =>
              (ev.res \notin {"uncaught", "unhandled"} /\ ev.log)

\* the entries of list whose key is k, k a primitive, and the value of the
\* last of them
HasKey(list, k) == \E i \in 1..Len(list) : sameValueZero(Get(list[i], "0"), k)
LastValue(list, k) ==
    LET last == CHOOSE i \in 1..Len(list) :
                   /\ sameValueZero(Get(list[i], "0"), k)
                   /\ \A j \in 1..Len(list) :
                         sameValueZero(Get(list[j], "0"), k) => j <= i
    IN  Get(list[last], "1")

\* how many elements of list satisfy Test
Count(list, Test(_)) == Cardinality({i \in 1..Len(list) : Test(list[i])})

\* re holds the union of the entries of te and se, the value of se under a
\* key both hold: one entry for each primitive key, every entry under an
\* object key (an object is a key of its own), and nothing else
IsMapUnion(te, se, re) ==
    LET both == te \o se
        primitiveKeys == {Get(both[i], "0") : i \in 1..Len(both)} \ 
                            {k \in {Get(both[i], "0") : i \in 1..Len(both)} :
                                typeofObject(k)}
        objectKeyed(e) == typeofObject(Get(e, "0"))
    IN  /\ \A k \in primitiveKeys :
              /\ Count(re, LAMBDA e : Get(e, "0") = k) = 1
              /\ LastValue(re, k) = IF HasKey(se, k) THEN LastValue(se, k)
                                    ELSE LastValue(te, k)
        /\ \A i \in 1..Len(re) : ~objectKeyed(re[i]) =>
              Get(re[i], "0") \in primitiveKeys
        /\ \A e \in {both[i] : i \in 1..Len(both)} : objectKeyed(e) =>
              Count(re, LAMBDA x : x = e) = Count(both, LAMBDA x : x = e)
        /\ Count(re, objectKeyed) = Count(both, objectKeyed)

\* re holds the union of the members of te and se: each primitive member
\* once, every object (an object is a member of its own), and nothing else
IsSetUnion(te, se, re) ==
    LET both == te \o se
    IN  /\ \A v \in {both[i] : i \in 1..Len(both)} :
              Count(re, LAMBDA x : x = v) =
                 IF typeofObject(v) THEN Count(both, LAMBDA x : x = v) ELSE 1
        /\ \A i \in 1..Len(re) : \E j \in 1..Len(both) : re[i] = both[j]

C33_UnknownTypeIsPlainObject ==
    (sPhase = "constructed" /\ Get(sState, "m") \in CustomTyped) =>
        /\ Get(sRestored, "m") = Get(sState, "m")
        /\ IsDeepMerge(Get(sInitial, "m"), Get(sState, "m"), Get(sStore, "m"))

\* C39: with DeepMergeStrategy and the JSON serialization strategy, a Date,
\* Map or Set of the record is in the store built from it with the same type
\* and contents, whether or not initialState holds a value under its key.
C39_DeepMergeKeepsSpecialTypes ==
    (sPhase = "constructed" /\ Get(sRestored, "m").t \in {"date", "map", "set"}) =>
        Get(sStore, "m") = Get(sRestored, "m")

\* C34: with the default gate and a backend whose calls succeed, when the
\* last unsettled set settles and no timer, notification or restoration is
\* left, the record under the key is the serialization of the live state,
\* whatever order the set calls completed in.
C34_SettledRecordIsFinalState ==
    [][(/\ o.gate = "always" /\ o.fault = "none"
        /\ ev'.op \in {"timerSettled", "persistSettled"}
        /\ inflight' = <<>> /\ timer' = -1 /\ ~notifyPending'
        /\ bg'.pc = "idle" /\ rs'.pc = "idle") =>
            backend'[key] = serialize(store')]_vars

\* C35: once add() is called no more and every write that was started has
\* settled, PersistQueue comes to rest with no timeout armed, the inProgress
\* flag false and no job queued; and while a write has not settled no other
\* write is started.
C35_QueueReachesIdle ==
    /\ <>[](debounceTimer = 0 /\ ~inProgress /\ queue = <<>> /\ executing = <<>>)
    /\ [][(executing # <<>> /\ qev'.op # "settled") => executing' = executing]_queueVars

\* C36: a restoration that changes the store (the background restoration of
\* persist(), or restore() resolving true) queues a notification for the
\* subscribe callback; when the gate accepts the change the callback arms the
\* debounce timer; and when that timer fires the merged state is written.
\* Before any call of the application the only change is the background
\* restoration.
C36_RestorationIsPersisted ==
    /\ [][(/\ \/ ev'.op = "restoration" /\ ev'.res = "restored"
              \/ ev'.op = "restoreSettled" /\ ev'.res = "true"
           /\ store' # store) => notifyPending']_vars
    /\ [][(/\ calls = 0 /\ ev'.op = "subscribe"
           /\ shouldPersist(o.gate, previousState, snapshot(store))) =>
              (ev'.res = "scheduled" /\ timer' = DebounceTime)]_vars
    /\ [][(calls = 0 /\ ev'.op = "timer" /\ o.fault = "none") =>
              inflight' = Append(inflight, [text |-> serialize(store),
                                            manual |-> FALSE])]_vars

\* C37: for every storage strategy and every two distinct keys k1 and k2,
\* set(k1, v) and remove(k1) leave what get(k2) and has(k2) answer as it
\* was, the file-backed strategies with their sanitized file names included.
C37_KeysAreIsolated ==
    [][\A k2 \in FileKeys :
          (stOp'.op \in {"set", "remove"} /\ stOp'.key # k2) =>
              /\ fileGet(stKind, stRecords', k2) = fileGet(stKind, stRecords, k2)
              /\ fileHas(stKind, stRecords', k2) = fileHas(stKind, stRecords, k2)]_stoVars

\* C38: when two calls of a SingleFileStrategy instance on different keys
\* overlap (set or remove, both issued before the first load of the file has
\* completed), then after both have resolved get answers for each key what
\* its call set (null after a remove) and the file holds the same: no update
\* is lost.
C38_NoLostUpdate ==
    (\A i \in SingleFileCalls : sfCalls[i].pc = "done") =>
        \A i \in SingleFileCalls :
            /\ sfCache[callKey[i]] = sfCalls[i].text
            /\ sfFile[callKey[i]] = sfCalls[i].text

====
